---- MODULE Spec2Model ----
(***************************************************************************)
(* Model of the text-to-flowchart compiler of src/flowchart.py:            *)
(* create_graphviz_flowchart, create_flowchart_display and                 *)
(* create_html_fallback.  Strings are sequences of one-character strings,  *)
(* so that split('->'), strip(), lower() and the keyword substring tests   *)
(* are computed as Python computes them.                                   *)
(***************************************************************************)
EXTENDS Integers, Sequences, FiniteSets, TLC

(***************************************************************************)
(* Bounds of the model.                                                    *)
(***************************************************************************)
MaxSteps == 4
MaxPieces == 4
MaxPair == 2
MaxCallSteps == 1

(***************************************************************************)
(* Python string operations.                                               *)
(***************************************************************************)
None == <<>>

UpperChars == <<"A","B","C","D","E","F","G","H","I","J","K","L","M",
                "N","O","P","Q","R","S","T","U","V","W","X","Y","Z">>

LowerChars == <<"a","b","c","d","e","f","g","h","i","j","k","l","m",
                "n","o","p","q","r","s","t","u","v","w","x","y","z">>

\* str.lower() on one character
LowerChar(c) ==
    IF \E k \in 1..Len(UpperChars) : UpperChars[k] = c
    THEN LowerChars[CHOOSE k \in 1..Len(UpperChars) : UpperChars[k] = c]
    ELSE c

\* str.lower()
lower(s) == [k \in 1..Len(s) |-> LowerChar(s[k])]

\* the characters str.strip() removes
Whitespace == {" ", "\t", "\n"}

RECURSIVE lstrip(_)
lstrip(s) ==
    IF s # <<>> /\ Head(s) \in Whitespace THEN lstrip(Tail(s)) ELSE s

RECURSIVE rstrip(_)
rstrip(s) ==
    IF s # <<>> /\ s[Len(s)] \in Whitespace
    THEN rstrip(SubSeq(s, 1, Len(s) - 1))
    ELSE s

\* variant: only leading whitespace is removed
strip_LeftOnly(s) == lstrip(s)

\* str.strip()
strip(s) == rstrip(lstrip(s))

\* kw in s
Contains(s, kw) ==
    \E k \in 1..(Len(s) - Len(kw) + 1) : SubSeq(s, k, k + Len(kw) - 1) = kw

\* the delimiter '->'
Arrow == <<"-", ">">>

\* str.split('->'): cut at the first delimiter, then split the rest
RECURSIVE split(_)
split(s) ==
    IF Contains(s, Arrow)
    THEN LET p == CHOOSE k \in 1..(Len(s) - 1) :
                      /\ SubSeq(s, k, k + 1) = Arrow
                      /\ \A m \in 1..(k - 1) : SubSeq(s, m, m + 1) # Arrow
         IN  <<SubSeq(s, 1, p - 1)>> \o split(SubSeq(s, p + 2, Len(s)))
    ELSE <<s>>

\* [step.strip() for step in segs if step.strip()]
RECURSIVE StripNonEmpty(_)
StripNonEmpty(segs) ==
    IF segs = <<>> THEN <<>>
    ELSE IF strip(Head(segs)) # <<>>
         THEN <<strip(Head(segs))>> \o StripNonEmpty(Tail(segs))
         ELSE StripNonEmpty(Tail(segs))

\* steps = [step.strip() for step in instruction_text.split('->') if step.strip()]
TokenizeSteps(instruction_text) == StripNonEmpty(split(instruction_text))

(***************************************************************************)
(* Keyword tests of the classifier.                                        *)
(***************************************************************************)
StartKeywords == {<<"s","t","a","r","t">>, <<"b","e","g","i","n">>}

EndKeywords == {<<"e","n","d">>, <<"f","i","n","i","s","h">>,
                <<"c","o","m","p","l","e","t","e">>}

DecisionKeywords == {<<"i","f">>, <<"c","h","e","c","k">>,
                     <<"d","e","c","i","d","e">>, <<"i","s">>, <<"?">>}

ElseKeyword == <<"e","l","s","e">>

\* any(keyword in step.lower() for keyword in kws)
AnyKeyword(step, kws) == \E kw \in kws : Contains(lower(step), kw)

IsStart(step) == AnyKeyword(step, StartKeywords)

IsEnd(step) == AnyKeyword(step, EndKeywords)

HasDecisionKeyword(step) == AnyKeyword(step, DecisionKeywords)

HasElse(step) == Contains(lower(step), ElseKeyword)

\* variant: the Decision keywords are tested before the StartEnd keywords
Classify_DecisionFirst(step) ==
    IF HasDecisionKeyword(step) /\ ~HasElse(step) THEN "decision"
    ELSE IF IsStart(step) THEN "start"
    ELSE IF IsEnd(step) THEN "end"
    ELSE IF HasElse(step) THEN "else"
    ELSE "process"

\* the branch of the if/elif chain a step takes at the cursor
Classify(step) ==
    IF IsStart(step) THEN "start"
    ELSE IF IsEnd(step) THEN "end"
    ELSE IF HasDecisionKeyword(step) /\ ~HasElse(step) THEN "decision"
    ELSE IF HasElse(step) THEN "else"
    ELSE "process"


(***************************************************************************)
(* Colour schemes.                                                         *)
(***************************************************************************)
\* color_schemes of create_graphviz_flowchart
GraphvizSchemes ==
    [default |->
        [start_end |-> "#4CAF50", process |-> "#2196F3", decision |-> "#FF9800",
         text_color |-> "white", bg_color |-> "white"],
     professional |->
        [start_end |-> "#1976D2", process |-> "#388E3C", decision |-> "#F57C00",
         text_color |-> "white", bg_color |-> "white"],
     dark |->
        [start_end |-> "#424242", process |-> "#616161", decision |-> "#795548",
         text_color |-> "white", bg_color |-> "#2e2e2e"],
     colorful |->
        [start_end |-> "#E91E63", process |-> "#9C27B0", decision |-> "#FF5722",
         text_color |-> "white", bg_color |-> "white"]]

\* color_schemes of create_html_fallback
HtmlSchemes ==
    [default |->
        [start_end |-> "#4CAF50", process |-> "#2196F3", decision |-> "#FF9800"],
     professional |->
        [start_end |-> "#1976D2", process |-> "#388E3C", decision |-> "#F57C00"],
     dark |->
        [start_end |-> "#424242", process |-> "#616161", decision |-> "#795548"],
     colorful |->
        [start_end |-> "#E91E63", process |-> "#9C27B0", decision |-> "#FF5722"]]

\* variant: an unknown name resolves to the dark palette
SchemeGet_Dark(table, color_scheme) ==
    IF color_scheme \in DOMAIN table THEN table[color_scheme] ELSE table["dark"]

\* color_schemes.get(color_scheme, color_schemes["default"])
SchemeGet(table, color_scheme) ==
    IF color_scheme \in DOMAIN table THEN table[color_scheme] ELSE table["default"]

(***************************************************************************)
(* Inputs: instruction strings and colour scheme names.                    *)
(***************************************************************************)
W_Start == <<"S","t","a","r","t">>
W_End == <<"E","n","d">>
W_Finish == <<"F","i","n","i","s","h">>
W_Check == <<"C","h","e","c","k"," ","i","f"," ","v","a","l","i","d">>
W_Yes == <<"Y","e","s"," ","d","o"," ","X">>
W_Else == <<"E","l","s","e"," ","d","o"," ","Y">>
W_Step1 == <<"S","t","e","p","1">>
W_Step2 == <<"S","t","e","p","2">>
W_Complete == <<"C","o","m","p","l","e","t","e">>
W_Ask == <<"O","k","?">>
W_IsOk == <<"I","s"," ","o","k">>
W_StartIf == <<"S","t","a","r","t"," ","i","f">>
W_ElseIf == <<"E","l","s","e"," ","i","f"," ","n","o">>
W_ElseEnd == <<"E","l","s","e"," ","e","n","d">>
W_Begin == <<"B","E","G","I","N">>

Words == {W_End, W_Check, W_Yes, W_Else}

AllWords == Words \cup {W_Finish, W_Start, W_Step1, W_Complete, W_Ask, W_IsOk,
                        W_StartIf, W_ElseIf, W_ElseEnd, W_Begin}

CallWords == {W_Check, W_Else}

Pieces == {Arrow, <<" ">>, <<"a">>, <<"-">>}

SeqsUpTo(S, n) == UNION {[1..k -> S] : k \in 0..n}

RECURSIVE Flatten(_)
Flatten(ps) == IF ps = <<>> THEN <<>> ELSE Head(ps) \o Flatten(Tail(ps))

RECURSIVE Join(_)
Join(ws) ==
    IF ws = <<>> THEN <<>>
    ELSE IF Len(ws) = 1 THEN ws[1]
    ELSE ws[1] \o Arrow \o Join(Tail(ws))

Example_Linear == Join(<<W_Start, W_Step1, W_Step2, W_End>>)

Example_Branch == Join(<<W_Start, W_Check, W_Yes, W_Else, W_End>>)

Example_OnlyDelimiters == <<"-",">"," ","-",">"," ","-",">">>

\* a step lies between the YES step and the "else" step of a decision
Example_StepBeforeElse == Join(<<W_Check, W_Yes, W_Step1, W_Else, W_End>>)

Examples ==
    {Example_Linear, Example_Branch, Example_OnlyDelimiters,
     Example_StepBeforeElse}

GraphInputs == {Join(ws) : ws \in SeqsUpTo(Words, MaxSteps)}

PairInputs == {Join(ws) : ws \in SeqsUpTo(AllWords, MaxPair)}

TokInputs == {Flatten(ps) : ps \in SeqsUpTo(Pieces, MaxPieces)}

Instructions == GraphInputs \cup PairInputs \cup TokInputs \cup Examples

CallInstructions ==
    {Join(ws) : ws \in SeqsUpTo(CallWords, MaxCallSteps)}
        \cup {Example_Linear, Example_Branch}

SchemeInputs == {"default", "dark", "neon"}

\* the examples are tried with every scheme name, the other inputs with one
SchemesFor(text) == IF text \in Examples THEN SchemeInputs ELSE {"default"}


(***************************************************************************)
(* State.                                                                  *)
(***************************************************************************)
VARIABLES
    instruction_text,   \* argument of create_flowchart_display
    color_scheme,       \* argument of create_flowchart_display
    pc,                 \* position of the call in the code
    steps,              \* the tokenized steps
    i,                  \* the cursor of the while loop (0-based)
    node_counter,       \* counter behind the node names
    previous_node,      \* name of the node sequential edges leave from, or None
    bgcolor,            \* graph attribute of the digraph
    nodes,              \* dot.node calls, in emission order
    edges,              \* dot.edge calls, in emission order
    origin,             \* for each emitted node: the step position it shows and
                        \* the statement that emitted it (history variable)
    result,             \* return value of create_graphviz_flowchart
    display,            \* return value of create_flowchart_display
    ref                 \* the first completed call (history variable)

vars == <<instruction_text, color_scheme, pc, steps, i, node_counter,
          previous_node, bgcolor, nodes, edges, origin, result, display, ref>>

\* f"node_{node_counter}"
NodeName(n) == <<"node_", n>>

\* dot.node(name, label, shape=..., style='filled', fillcolor=..., fontcolor=...)
Node(name, label, shape, fillcolor, fontcolor) ==
    [name |-> name, label |-> label, shape |-> shape, style |-> "filled",
     fillcolor |-> fillcolor, fontcolor |-> fontcolor]

\* dot.edge(tail, head, label=..., color=...)
Edge(tail, head, label, color) ==
    [tail |-> tail, head |-> head, label |-> label, color |-> color]

\* dot.edge(tail, head)
PlainEdge(tail, head) == Edge(tail, head, "None", "None")

NoResult == [dot |-> FALSE, error |-> "unset"]

NoDisplay == [renderer |-> "unset", svg |-> <<>>, html |-> <<>>]

NoRef == [set |-> FALSE, instruction_text |-> <<>>, color_scheme |-> "",
          result |-> NoResult, graph |-> <<>>, display |-> NoDisplay]

\* the digraph built by the call
Dot == [bgcolor |-> bgcolor, nodes |-> nodes, edges |-> edges]

\* the local variables of a call before its first statement
Fresh ==
    /\ steps = <<>>
    /\ i = 0
    /\ node_counter = 0
    /\ previous_node = None
    /\ bgcolor = "unset"
    /\ nodes = <<>>
    /\ edges = <<>>
    /\ origin = <<>>
    /\ result = NoResult
    /\ display = NoDisplay

Init ==
    /\ instruction_text \in Instructions
    /\ color_scheme \in SchemesFor(instruction_text)
    /\ pc = "import"
    /\ Fresh
    /\ ref = NoRef

InitCalls ==
    /\ instruction_text \in CallInstructions
    /\ color_scheme \in SchemeInputs
    /\ pc = "import"
    /\ Fresh
    /\ ref = NoRef

(***************************************************************************)
(* create_graphviz_flowchart.                                              *)
(***************************************************************************)
\* import graphviz raises ImportError
ImportError ==
    /\ pc = "import"
    /\ result' = [dot |-> FALSE, error |-> "Graphviz library not installed"]
    /\ pc' = "display"
    /\ UNCHANGED <<instruction_text, color_scheme, steps, i, node_counter,
                   previous_node, bgcolor, nodes, edges, origin, display, ref>>

\* colors = color_schemes.get(...)
Colors == SchemeGet(GraphvizSchemes, color_scheme)

\* variant: the empty-steps return is missing
NoSteps_Never(s) == FALSE

\* the empty-steps test: if not steps
NoSteps(s) == s = <<>>

\* variant: the cursor starts at the second step
InitLoopVars_FromOne ==
    /\ node_counter' = 0
    /\ previous_node' = None
    /\ i' = 1

\* variant: the counter and the previous node live across calls
InitLoopVars_Stale ==
    /\ i' = 0
    /\ UNCHANGED <<node_counter, previous_node>>

\* node_counter = 0; previous_node = None; i = 0
InitLoopVars ==
    /\ node_counter' = 0
    /\ previous_node' = None
    /\ i' = 0

\* import graphviz succeeds: palette lookup, digraph creation, tokenizing, the
\* empty-steps return and the initialisation of the loop variables
Tokenize ==
    /\ pc = "import"
    /\ bgcolor' = Colors.bg_color
    /\ nodes' = <<>>
    /\ edges' = <<>>
    /\ origin' = <<>>
    /\ steps' = TokenizeSteps(instruction_text)
    /\ IF NoSteps(steps')
       THEN /\ result' = [dot |-> FALSE, error |-> "No steps found"]
            /\ pc' = "display"
            /\ UNCHANGED <<i, node_counter, previous_node>>
       ELSE /\ InitLoopVars
            /\ pc' = "loop"
            /\ UNCHANGED result
    /\ UNCHANGED <<instruction_text, color_scheme, display, ref>>

\* while i < len(steps)
InLoop == pc = "loop" /\ i < Len(steps)

\* step = steps[i]
step == steps[i + 1]

\* current_node = f"node_{node_counter}"
current_node == NodeName(node_counter)

\* variant: the keyword test of the guard is inverted
ConnectsFromPrevious_Inverted(prev, s) == prev # None /\ HasDecisionKeyword(s)

\* the guard of the sequential edge after the if/elif chain
ConnectsFromPrevious(prev, s) == prev # None /\ ~HasDecisionKeyword(s)

\* the tail of an iteration that did not `continue`
SequentialTail ==
    /\ edges' = IF ConnectsFromPrevious(previous_node, step)
                THEN Append(edges, PlainEdge(previous_node, current_node))
                ELSE edges
    /\ previous_node' = current_node
    /\ i' = i + 1

\* Start node or End node: ellipse
StartEndStep ==
    /\ InLoop
    /\ Classify(step) \in {"start", "end"}
    /\ node_counter' = node_counter + 1
    /\ nodes' = Append(nodes, Node(current_node, step, "ellipse",
                                   Colors.start_end, Colors.text_color))
    /\ origin' = Append(origin, [pos |-> i, role |-> "cursor"])
    /\ SequentialTail
    /\ UNCHANGED <<instruction_text, color_scheme, pc, steps, bgcolor, result,
                   display, ref>>

\* Process node: box
ProcessStep ==
    /\ InLoop
    /\ Classify(step) = "process"
    /\ node_counter' = node_counter + 1
    /\ nodes' = Append(nodes, Node(current_node, step, "box",
                                   Colors.process, Colors.text_color))
    /\ origin' = Append(origin, [pos |-> i, role |-> "cursor"])
    /\ SequentialTail
    /\ UNCHANGED <<instruction_text, color_scheme, pc, steps, bgcolor, result,
                   display, ref>>

\* a step containing "else" is skipped
ElseStep ==
    /\ InLoop
    /\ Classify(step) = "else"
    /\ node_counter' = node_counter + 1
    /\ i' = i + 1
    /\ UNCHANGED <<instruction_text, color_scheme, pc, steps, previous_node,
                   bgcolor, nodes, edges, origin, result, display, ref>>

\* for j in range(i + 1, len(steps)): if "else" in steps[j].lower(): ... break
\* the position j the scan stops at, or -1
\* variant: the scan keeps the last step containing "else"
ElseScan_Last(ss, from) ==
    LET found == {j \in from..(Len(ss) - 1) : HasElse(ss[j + 1])}
    IN  IF found = {} THEN -1
        ELSE CHOOSE j \in found : \A k \in found : j >= k

ElseScan(ss, from) ==
    LET found == {j \in from..(Len(ss) - 1) : HasElse(ss[j + 1])}
    IN  IF found = {} THEN -1
        ELSE CHOOSE j \in found : \A k \in found : j <= k

\* if j + 1 < len(steps): the NO node is created
HasNoNode(ss, from) ==
    LET j == ElseScan(ss, from) IN j >= 0 /\ j + 1 < Len(ss)

\* variant: the branches do not move the cursor
BranchAdvance_Zero(no_node) == 0

\* variant: the branch advance is the whole advance of the iteration
BranchAdvance_OneLess(no_node) == IF no_node THEN 1 ELSE 0

\* variant: one more step is skipped after a decision
BranchAdvance_SkipsMore(no_node) == IF no_node THEN 3 ELSE 2

\* i += 2 if no_node else 1
BranchAdvance(no_node) == IF no_node THEN 2 ELSE 1

\* variant: the flow restarts after a branch
AfterBranch_Restart(decision_node, yes_node) == None

\* variant: the flow continues from the decision node
AfterBranch_Decision(decision_node, yes_node) == decision_node

\* previous_node = yes_node
AfterBranch(decision_node, yes_node) == yes_node

\* variant: the YES branch needs two following steps
HasNextStep_Two(ss, at) == at + 2 < Len(ss)

\* if i + 1 < len(steps): a step follows the Decision step
HasNextStep(ss, at) == at + 1 < Len(ss)

\* Decision node: diamond, with its YES and NO branches
DecisionStep ==
    /\ InLoop
    /\ Classify(step) = "decision"
    /\ LET decision == Node(current_node, step, "diamond",
                            Colors.decision, Colors.text_color)
           into == IF previous_node # None
                   THEN <<PlainEdge(previous_node, current_node)>>
                   ELSE <<>>
           yes_node == NodeName(node_counter + 1)
           no_node == NodeName(node_counter + 2)
           j == ElseScan(steps, i + 1)
           has_no == HasNoNode(steps, i + 1)
       IN  IF HasNextStep(steps, i)
           THEN /\ nodes' = nodes \o <<decision,
                              Node(yes_node, steps[i + 2], "box",
                                   Colors.process, Colors.text_color)>>
                            \o (IF has_no
                                THEN <<Node(no_node, steps[j + 2], "box",
                                            Colors.process, Colors.text_color)>>
                                ELSE <<>>)
                /\ edges' = edges \o into
                            \o <<Edge(current_node, yes_node, "YES", "green")>>
                            \o (IF has_no
                                THEN <<Edge(current_node, no_node, "NO", "red")>>
                                ELSE <<>>)
                /\ origin' = origin
                             \o <<[pos |-> i, role |-> "cursor"],
                                  [pos |-> i + 1, role |-> "yes"]>>
                             \o (IF has_no
                                 THEN <<[pos |-> j + 1, role |-> "no"]>>
                                 ELSE <<>>)
                /\ node_counter' = node_counter + (IF has_no THEN 3 ELSE 2)
                /\ previous_node' = AfterBranch(current_node, yes_node)
                /\ i' = i + BranchAdvance(has_no) + 1
           ELSE /\ nodes' = Append(nodes, decision)
                /\ edges' = edges \o into
                /\ origin' = Append(origin, [pos |-> i, role |-> "cursor"])
                /\ node_counter' = node_counter + 1
                /\ i' = i + 1
                /\ UNCHANGED previous_node
    /\ UNCHANGED <<instruction_text, color_scheme, pc, steps, bgcolor, result,
                   display, ref>>

\* the loop ends: return dot, None
LoopExit ==
    /\ pc = "loop"
    /\ ~(i < Len(steps))
    /\ result' = [dot |-> TRUE, error |-> "None"]
    /\ pc' = "display"
    /\ UNCHANGED <<instruction_text, color_scheme, steps, i, node_counter,
                   previous_node, bgcolor, nodes, edges, origin, display, ref>>


(***************************************************************************)
(* create_html_fallback.                                                   *)
(***************************************************************************)
HtmlStartEndKeywords == {<<"s","t","a","r","t">>, <<"b","e","g","i","n">>,
                         <<"e","n","d">>, <<"f","i","n","i","s","h">>}

HtmlDecisionKeywords == {<<"i","f">>, <<"c","h","e","c","k">>,
                         <<"d","e","c","i","d","e">>}

\* the branch of the if/elif chain of the fallback renderer
HtmlKind(s) ==
    IF AnyKeyword(s, HtmlStartEndKeywords) THEN "start_end"
    ELSE IF AnyKeyword(s, HtmlDecisionKeywords) THEN "decision"
    ELSE "process"

\* shape_style of one block
ShapeStyle(s, colors) ==
    CASE HtmlKind(s) = "start_end" ->
            [shape |-> "border-radius: 25px", background |-> colors.start_end]
      [] HtmlKind(s) = "decision" ->
            [shape |-> "transform: rotate(45deg)", background |-> colors.decision]
      [] OTHER ->
            [shape |-> "border-radius: 5px", background |-> colors.process]

\* variant: every block is followed by an arrow
create_html_fallback_ArrowAll(text, scheme) ==
    LET colors == SchemeGet(HtmlSchemes, scheme)
        ss == TokenizeSteps(text)
    IN  [k \in 1..Len(ss) |->
            [text |-> ss[k], style |-> ShapeStyle(ss[k], colors),
             arrow |-> TRUE]]

\* the blocks of the markup, one per step, each followed by an arrow unless last
create_html_fallback(text, scheme) ==
    LET colors == SchemeGet(HtmlSchemes, scheme)
        ss == TokenizeSteps(text)
    IN  [k \in 1..Len(ss) |->
            [text |-> ss[k], style |-> ShapeStyle(ss[k], colors),
             arrow |-> (k - 1 < Len(ss) - 1)]]

(***************************************************************************)
(* create_flowchart_display.                                               *)
(***************************************************************************)
\* if graphviz_result: the pipe call succeeds
RenderSvg ==
    /\ pc = "display"
    /\ result.dot
    /\ display' = [renderer |-> "graphviz", svg |-> <<Dot>>, html |-> <<>>]
    /\ pc' = "done"
    /\ UNCHANGED <<instruction_text, color_scheme, steps, i, node_counter,
                   previous_node, bgcolor, nodes, edges, origin, result, ref>>

\* if graphviz_result: the pipe call raises, a warning is shown
RenderFails ==
    /\ pc = "display"
    /\ result.dot
    /\ pc' = "fallback"
    /\ UNCHANGED <<instruction_text, color_scheme, steps, i, node_counter,
                   previous_node, bgcolor, nodes, edges, origin, result,
                   display, ref>>

\* variant: the fallback is entered only after a failed render
ReachesFallback_RenderOnly == pc = "fallback"

\* the fallback is reached: no graph, or the render failed
ReachesFallback == pc = "fallback" \/ (pc = "display" /\ ~result.dot)

\* html_content = create_html_fallback(...); return html_content, "html"
HtmlFallback ==
    /\ ReachesFallback
    /\ display' = [renderer |-> "html", svg |-> <<>>,
                   html |-> <<create_html_fallback(instruction_text,
                                                   color_scheme)>>]
    /\ pc' = "done"
    /\ UNCHANGED <<instruction_text, color_scheme, steps, i, node_counter,
                   previous_node, bgcolor, nodes, edges, origin, result, ref>>

\* the caller calls create_flowchart_display again with new arguments; the
\* storage of the locals is not cleared between calls
Recall ==
    /\ pc = "done"
    /\ ref' = IF ref.set THEN ref
              ELSE [set |-> TRUE, instruction_text |-> instruction_text,
                    color_scheme |-> color_scheme, result |-> result,
                    graph |-> IF result.dot THEN <<Dot>> ELSE <<>>,
                    display |-> display]
    /\ instruction_text' \in CallInstructions
    /\ color_scheme' \in SchemeInputs
    /\ pc' = "import"
    /\ result' = NoResult
    /\ display' = NoDisplay
    /\ UNCHANGED <<steps, i, node_counter, previous_node, bgcolor, nodes,
                   edges, origin>>

Next ==
    \/ ImportError
    \/ Tokenize
    \/ StartEndStep
    \/ ProcessStep
    \/ ElseStep
    \/ DecisionStep
    \/ LoopExit
    \/ RenderSvg
    \/ RenderFails
    \/ HtmlFallback

Spec == Init /\ [][Next]_vars

NextCalls == Next \/ Recall

SpecCalls == InitCalls /\ [][NextCalls]_vars


(***************************************************************************)
(* Properties.                                                             *)
(***************************************************************************)
\* the call got past the import and tokenized its instruction
Tokenized == pc # "import" /\ result.error # "Graphviz library not installed"

\* create_graphviz_flowchart returned a graph
Compiled == result.dot

\* positions of the edges that leave / enter the node called name
OutEdges(name) == {e \in 1..Len(edges) : edges[e].tail = name}

InEdges(name) == {e \in 1..Len(edges) : edges[e].head = name}

\* no step has a Decision keyword or "else"
NoBranching ==
    \A k \in 1..Len(steps) : ~HasDecisionKeyword(steps[k]) /\ ~HasElse(steps[k])

\* C1: when no step contains a Decision keyword or "else", the compiled graph
\* has exactly one node per step, in step order, named node_0, node_1, ...
\* and labelled with the step text, and its edges are exactly the unlabeled
\* edges node_k -> node_{k+1}; "Start->Step1->Step2->End" gives 4 nodes and 3
\* edges, the first and the last node being ellipses.
C1_LinearChain ==
    (Compiled /\ NoBranching) =>
        /\ Len(nodes) = Len(steps)
        /\ \A k \in 1..Len(steps) :
              /\ nodes[k].label = steps[k]
              /\ nodes[k].name = NodeName(k - 1)
        /\ edges = [k \in 1..(Len(steps) - 1) |->
                       PlainEdge(NodeName(k - 1), NodeName(k))]
        /\ (instruction_text = Example_Linear =>
               /\ steps = <<W_Start, W_Step1, W_Step2, W_End>>
               /\ Len(nodes) = 4
               /\ Len(edges) = 3
               /\ nodes[1].shape = "ellipse"
               /\ nodes[4].shape = "ellipse")

C1_Witness ==
    /\ Compiled
    /\ instruction_text = Example_Linear
    /\ Len(nodes) = 4
    /\ Len(edges) = 3

\* C2: for a Decision step processed at position p whose next step has no
\* "else", whose step p+2 contains "else" and which has a step T at p+3: the
\* decision node has a YES edge to the node of step p+1 and a NO edge to a
\* node labelled T, and no edge goes from the YES node to a node labelled T.
C2_TargetOnlyViaNo ==
    Compiled =>
        \A d \in 1..Len(nodes) :
            LET p == origin[d].pos IN
            (/\ nodes[d].shape = "diamond"
             /\ p + 3 < Len(steps)
             /\ ~HasElse(steps[p + 2])
             /\ HasElse(steps[p + 3]))
            =>
            /\ \E e \in OutEdges(nodes[d].name), y \in 1..Len(nodes) :
                  /\ edges[e].label = "YES"
                  /\ edges[e].head = nodes[y].name
                  /\ origin[y] = [pos |-> p + 1, role |-> "yes"]
            /\ \E e \in OutEdges(nodes[d].name), n \in 1..Len(nodes) :
                  /\ edges[e].label = "NO"
                  /\ edges[e].head = nodes[n].name
                  /\ nodes[n].label = steps[p + 4]
            /\ \A y \in 1..Len(nodes), t \in 1..Len(nodes) :
                  (/\ origin[y] = [pos |-> p + 1, role |-> "yes"]
                   /\ nodes[t].label = steps[p + 4])
                  => ~\E e \in 1..Len(edges) :
                         /\ edges[e].tail = nodes[y].name
                         /\ edges[e].head = nodes[t].name

\* the steps that contain "else"
ElseSteps == {k \in 1..Len(steps) : HasElse(steps[k])}

\* C3: the compiled graph has at least as many nodes as there are steps that
\* do not contain "else".
C3_NodeCount ==
    Compiled => Len(nodes) >= Len(steps) - Cardinality(ElseSteps)

C3_Witness ==
    /\ Compiled
    /\ ElseSteps # {}
    /\ \E d \in 1..Len(nodes) : nodes[d].shape = "diamond"
    /\ Len(nodes) = Len(steps) - Cardinality(ElseSteps)

\* C4: a diamond node has at most 2 outgoing edges, none of them unlabeled,
\* at most one labelled NO, and exactly one labelled YES if it has any.
C4_DecisionOutEdges ==
    \A d \in 1..Len(nodes) :
        nodes[d].shape = "diamond" =>
            LET out == OutEdges(nodes[d].name)
                yes == {e \in out : edges[e].label = "YES"}
                no == {e \in out : edges[e].label = "NO"}
            IN  /\ Cardinality(out) <= 2
                /\ out = yes \cup no
                /\ Cardinality(no) <= 1
                /\ (out # {} => Cardinality(yes) = 1)

C4_Witness ==
    /\ Compiled
    /\ Len(nodes) > 3
    /\ \E d \in 1..Len(nodes) :
          /\ nodes[d].shape = "diamond"
          /\ Cardinality(OutEdges(nodes[d].name)) = 2
    /\ \E d \in 1..Len(nodes) :
          /\ nodes[d].shape = "diamond"
          /\ Cardinality(OutEdges(nodes[d].name)) = 0

\* C5: when the tokenized instruction has no step, create_graphviz_flowchart
\* returns no graph and the message "No steps found", and the digraph has no
\* node and no edge.
C5_EmptyInput ==
    (Tokenized /\ TokenizeSteps(instruction_text) = <<>>) =>
        /\ result = [dot |-> FALSE, error |-> "No steps found"]
        /\ nodes = <<>>
        /\ edges = <<>>

C5_Witness ==
    /\ instruction_text = Example_OnlyDelimiters
    /\ result.error = "No steps found"
    /\ ~Compiled

\* C6: when the compilation failed with "No steps found",
\* create_flowchart_display returns neither graphviz nor html content.
C6_EmptyInputAborts ==
    (pc = "done" /\ result.error = "No steps found") =>
        display.renderer \notin {"graphviz", "html"}


Min(S) == CHOOSE x \in S : \A y \in S : x <= y

Max(S) == CHOOSE x \in S : \A y \in S : x >= y

\* positions where a delimiter starts; two delimiters never overlap
ArrowStarts(s) == {p \in 1..(Len(s) - 1) : s[p] = "-" /\ s[p + 1] = ">"}

\* positions where a segment starts: the text start and after each delimiter
SegmentStarts(s) == {1} \cup {p + 2 : p \in ArrowStarts(s)}

\* the last position of the segment that starts at a
SegmentEnd(s, a) ==
    LET later == {p \in ArrowStarts(s) : p >= a}
    IN  IF later = {} THEN Len(s) ELSE Min(later) - 1

\* the non-whitespace positions of the segment that starts at a
Inner(s, a) == {k \in a..SegmentEnd(s, a) : s[k] \notin Whitespace}

\* the segments that are not empty after trimming
Kept(s) == {a \in SegmentStarts(s) : Inner(s, a) # {}}

TrimmedSegment(s, a) == SubSeq(s, Min(Inner(s, a)), Max(Inner(s, a)))

Rank(s, a) == Cardinality({b \in Kept(s) : b <= a})

\* ss lists, in text order, the trimmed non-empty segments of s
ListsSegments(ss, s) ==
    /\ Len(ss) = Cardinality(Kept(s))
    /\ \A a \in Kept(s) : ss[Rank(s, a)] = TrimmedSegment(s, a)

\* C9: the steps are, in text order, exactly the segments between "->"
\* delimiters that are non-empty after trimming, each trimmed; the fallback
\* renderer shows the same steps.
C9_Tokenizer ==
    /\ Tokenized => ListsSegments(steps, instruction_text)
    /\ display.renderer = "html" =>
          ListsSegments([k \in 1..Len(display.html[1]) |->
                            display.html[1][k].text], instruction_text)

C9_Witness ==
    /\ Tokenized
    /\ steps # <<>>
    /\ Kept(instruction_text) # SegmentStarts(instruction_text)
    /\ \E a \in Kept(instruction_text) :
          Inner(instruction_text, a) #
              a..SegmentEnd(instruction_text, a)

\* C10: in a compiled graph every node but the first emitted has an incoming
\* edge, and a StartEnd or Process node emitted at the cursor after another
\* node has an unlabeled incoming edge.
C10_IncomingEdge ==
    Compiled =>
        \A k \in 2..Len(nodes) :
            /\ InEdges(nodes[k].name) # {}
            /\ (origin[k].role = "cursor" /\ nodes[k].shape # "diamond") =>
                  \E e \in InEdges(nodes[k].name) : edges[e].label = "None"

(***************************************************************************)
(* Properties of repeated calls (SpecCalls).                               *)
(***************************************************************************)
KnownScheme(cs) == cs \in DOMAIN GraphvizSchemes /\ cs \in DOMAIN HtmlSchemes

UnknownScheme(cs) ==
    cs \notin DOMAIN GraphvizSchemes /\ cs \notin DOMAIN HtmlSchemes

ImportFailed(r) == r.error = "Graphviz library not installed"

\* the finished call and the remembered call produced the same outputs, as
\* far as both ran the same function
SameOutput ==
    /\ (~ImportFailed(result) /\ ~ImportFailed(ref.result)) =>
          /\ result = ref.result
          /\ (result.dot => <<Dot>> = ref.graph)
    /\ display.renderer = ref.display.renderer => display = ref.display

\* C7: a call with an unknown scheme name produces the output of the call
\* with the same instruction and "default", in graph mode and in markup
\* mode, and fails only as a call with "default" does.
C7_UnknownSchemeIsDefault ==
    /\ (/\ pc = "done"
        /\ ref.set
        /\ ref.instruction_text = instruction_text
        /\ \/ UnknownScheme(color_scheme) /\ ref.color_scheme = "default"
           \/ color_scheme = "default" /\ UnknownScheme(ref.color_scheme))
       => SameOutput
    /\ (pc = "done" /\ UnknownScheme(color_scheme)) =>
          \/ result.dot
          \/ ImportFailed(result)
          \/ TokenizeSteps(instruction_text) = <<>>

C7_Witness ==
    /\ pc = "done"
    /\ ref.set
    /\ ref.instruction_text = instruction_text
    /\ UnknownScheme(color_scheme)
    /\ ref.color_scheme = "default"
    /\ result.dot
    /\ ref.result.dot
    /\ Len(nodes) >= 5
    /\ display.renderer = "html"
    /\ ref.display.renderer = "html"

\* C8: a call with the instruction and the scheme of an earlier call, made
\* after any other calls, produces the same graph (names, labels, shapes,
\* colours, edges and edge labels) and the same outputs.
C8_Deterministic ==
    (/\ pc = "done"
     /\ ref.set
     /\ ref.instruction_text = instruction_text
     /\ ref.color_scheme = color_scheme)
    => SameOutput

C8_Witness ==
    /\ pc = "done"
    /\ ref.set
    /\ ref.instruction_text = instruction_text
    /\ ref.color_scheme = color_scheme
    /\ KnownScheme(color_scheme)
    /\ result.dot
    /\ ref.result.dot
    /\ Len(nodes) >= 5
    /\ display.renderer = "graphviz"
    /\ ref.display.renderer = "graphviz"

(***************************************************************************)
(* Properties of the loop iterations.                                      *)
(***************************************************************************)
\* the kind a step has by the stated precedence: StartEnd keywords first,
\* then "else", then Decision keywords, then Process
KindByPrecedence(s) ==
    IF \E kw \in StartKeywords \cup EndKeywords : Contains(lower(s), kw)
    THEN "StartEnd"
    ELSE IF Contains(lower(s), ElseKeyword) THEN "Marker"
    ELSE IF \E kw \in DecisionKeywords : Contains(lower(s), kw) THEN "Decision"
    ELSE "Process"

ShapeOfKind(kind) ==
    CASE kind = "StartEnd" -> "ellipse"
      [] kind = "Decision" -> "diamond"
      [] kind = "Process" -> "box"
      [] OTHER -> "none"

\* C11: an iteration of the loop treats the step at the cursor by the
\* precedence StartEnd, branch marker, Decision, Process: a marker step
\* emits nothing, any other step emits first a node labelled with the step
\* and shaped by its kind.
C11_Precedence ==
    [][InLoop =>
          IF KindByPrecedence(step) = "Marker"
          THEN nodes' = nodes /\ edges' = edges
          ELSE /\ Len(nodes') > Len(nodes)
               /\ nodes'[Len(nodes) + 1].label = step
               /\ nodes'[Len(nodes) + 1].shape =
                      ShapeOfKind(KindByPrecedence(step))]_vars

C11_Witness ==
    /\ Compiled
    /\ steps = <<W_StartIf, W_ElseIf>>
    /\ Len(nodes) = 1
    /\ nodes[1].shape = "ellipse"

\* a call without a graph, or whose render raised, is at the fallback; a
\* returned call has exactly one mode; graph mode carries the compiled graph,
\* markup mode the blocks of create_html_fallback
OneMode ==
    /\ (pc = "fallback" \/ (pc = "display" /\ ~Compiled)) => ReachesFallback
    /\ pc = "fallback" => Compiled
    /\ pc = "done" =>
          /\ display.renderer \in {"graphviz", "html"}
          /\ display.renderer = "graphviz" =>
                /\ Compiled
                /\ display.svg = <<Dot>>
                /\ display.html = <<>>
          /\ display.renderer = "html" =>
                /\ display.html =
                      <<create_html_fallback(instruction_text, color_scheme)>>
                /\ display.svg = <<>>
          /\ ImportFailed(result) => display.renderer = "html"

\* the step of a call that has no graph or whose render raised returns
\* markup; the step of a call with a graph returns the graph or goes to the
\* fallback
FallbackStep ==
    /\ (pc = "fallback" \/ (pc = "display" /\ ~Compiled)) =>
          /\ pc' = "done"
          /\ display'.renderer = "html"
    /\ (pc = "display" /\ Compiled) =>
          \/ pc' = "done" /\ display'.renderer = "graphviz"
          \/ pc' = "fallback" /\ display' = display

AtDecision == InLoop /\ Classify(step) = "decision"

\* the iteration emitted a NO-branch node
EmitsNoNode ==
    /\ Len(origin') > Len(origin)
    /\ origin'[Len(origin')].role = "no"

\* C13 as stated: an iteration on a Decision step advances the cursor by 2
\* when it emitted a NO-branch node and by 1 otherwise; every other
\* iteration advances it by 1.
C13_AdvanceAsStated ==
    [][InLoop =>
          IF AtDecision
          THEN i' = i + (IF EmitsNoNode THEN 2 ELSE 1)
          ELSE i' = i + 1]_vars

\* C13 amended: an iteration on a Decision step advances the cursor by 3
\* when it emitted a NO-branch node, by 2 when it emitted only a YES node,
\* and by 1 when the Decision step is the last step; every other iteration
\* advances it by 1.
C13_Advance ==
    [][InLoop =>
          IF AtDecision
          THEN i' = i + (IF EmitsNoNode THEN 3
                         ELSE IF i + 1 < Len(steps) THEN 2
                         ELSE 1)
          ELSE i' = i + 1]_vars

C13_Witness ==
    /\ pc = "loop"
    /\ Len(origin) >= 3
    /\ origin[Len(origin)].role = "no"
    /\ origin[Len(origin) - 2].role = "cursor"
    /\ i = origin[Len(origin) - 2].pos + 3
    /\ i < Len(steps)

\* emitted nodes that are decision nodes of a Decision step with a following
\* step (indices into nodes)
BranchingDecisions ==
    {d \in 1..Len(nodes) : /\ origin[d].role = "cursor"
                           /\ nodes[d].shape = "diamond"
                           /\ origin[d].pos + 1 < Len(steps)}

\* 1-based positions of the steps containing "else" after the Decision step
\* of node d
ElseAfter(d) ==
    {k \in (origin[d].pos + 2)..Len(steps) :
        Contains(lower(steps[k]), ElseKeyword)}

\* NO edges that leave node d
NoEdges(d) == {e \in OutEdges(nodes[d].name) : edges[e].label = "NO"}

\* C14: a Decision step with a following step gets a NO edge (label "NO",
\* colour red) iff a step containing "else" follows it and the first such
\* step is not the last step; the edge then leads to a new node labelled
\* with the step after that first "else" step. Later "else" steps are not
\* consulted.
C14_NoBranch ==
    \A d \in BranchingDecisions :
        LET found == ElseAfter(d)
            no == NoEdges(d)
        IN  /\ (no # {}) <=> (found # {} /\ Min(found) < Len(steps))
            /\ \A e \in no :
                  /\ edges[e].color = "red"
                  /\ no = {e}
                  /\ \E h \in (d + 1)..Len(nodes) :
                        /\ nodes[h].name = edges[e].head
                        /\ nodes[h].label = steps[Min(found) + 1]
                        /\ origin[h].role = "no"
                        /\ InEdges(nodes[h].name) = {e}
                        /\ \A g \in 1..Len(nodes) :
                              nodes[g].name = nodes[h].name => g = h

C14_Witness ==
    /\ Compiled
    /\ \E d \in BranchingDecisions :
          /\ Cardinality(ElseAfter(d)) >= 2
          /\ Max(ElseAfter(d)) = Len(steps)
          /\ NoEdges(d) # {}

\* emitted decision nodes of Decision steps processed at the cursor
CursorDecisions ==
    {d \in 1..Len(nodes) : origin[d].role = "cursor"
                           /\ nodes[d].shape = "diamond"}

\* YES edges that leave node d
YesEdges(d) == {e \in OutEdges(nodes[d].name) : edges[e].label = "YES"}

\* C15: a Decision step processed at the cursor that has a following step
\* gets exactly one YES edge (label "YES", colour green) from its decision
\* node to a new node labelled with the following step; a Decision step that
\* is the last step gets a decision node with no outgoing edge, and the
\* graph still compiles.
C15_YesBranch ==
    \A d \in CursorDecisions :
        IF origin[d].pos + 1 < Len(steps)
        THEN \E e \in YesEdges(d) :
                /\ YesEdges(d) = {e}
                /\ edges[e].color = "green"
                /\ d < Len(nodes)
                /\ nodes[d + 1].name = edges[e].head
                /\ nodes[d + 1].label = steps[origin[d].pos + 2]
                /\ origin[d + 1].role = "yes"
                /\ \A g \in 1..Len(nodes) :
                      nodes[g].name = nodes[d + 1].name => g = d + 1
        ELSE /\ OutEdges(nodes[d].name) = {}
             /\ pc \in {"loop", "display", "fallback", "done"}
             /\ pc # "loop" => Compiled /\ result.error = "None"

C15_Witness ==
    /\ Compiled
    /\ Len(steps) >= 3
    /\ \E d \in CursorDecisions : origin[d].pos + 1 = Len(steps)
    /\ \E d \in CursorDecisions : YesEdges(d) # {}

\* no node emitted as a NO-branch node has an outgoing edge
NoBranchDangles ==
    \A h \in 1..Len(nodes) :
        origin[h].role = "no" => OutEdges(nodes[h].name) = {}

\* a Decision step with a following step leaves previous_node at its YES
\* node, and the next sequential edge leaves the node previous_node names
YesContinues ==
    /\ (AtDecision /\ i + 1 < Len(steps)) =>
          /\ origin'[Len(nodes) + 2].role = "yes"
          /\ previous_node' = nodes'[Len(nodes) + 2].name
    /\ InLoop =>
          \A e \in (Len(edges) + 1)..Len(edges') :
              edges'[e].label = "None" => edges'[e].tail = previous_node

\* C16: after a Decision step with a following step is processed,
\* previous_node is the YES-branch node, so a later sequential edge leaves
\* the YES node; a node emitted as a NO-branch node never has an outgoing
\* edge.
C16_ContinueFromYes == [](NoBranchDangles) /\ [][YesContinues]_vars

C16_Witness ==
    /\ Compiled
    /\ \E y \in 1..Len(nodes) :
          /\ origin[y].role = "yes"
          /\ \E e \in OutEdges(nodes[y].name) : edges[e].label = "None"
    /\ \E h \in 1..Len(nodes) :
          /\ origin[h].role = "no"
          /\ h < Len(nodes)

\* 1-based positions k where steps k and k + 1 are both Decision-classified
AdjacentDecisions ==
    {k \in 1..(Len(steps) - 1) : /\ Classify(steps[k]) = "decision"
                                 /\ Classify(steps[k + 1]) = "decision"}

\* the decision node emitted for the step at 1-based position k, if any
DecisionNodesAt(k) == {d \in CursorDecisions : origin[d].pos = k - 1}

\* C17 as stated: of two adjacent Decision steps each gets a decision
\* (diamond) node, and the sequential edge into the second decision node
\* leaves the first decision's YES node.
C17_IndependentAsStated ==
    Compiled =>
        \A k \in AdjacentDecisions :
            /\ DecisionNodesAt(k) # {}
            /\ DecisionNodesAt(k + 1) # {}
            /\ \A d \in DecisionNodesAt(k), s \in DecisionNodesAt(k + 1) :
                  \E e \in InEdges(nodes[s].name) :
                      /\ edges[e].label = "None"
                      /\ edges[e].tail = nodes[d + 1].name

\* C17 amended: when a Decision step processed at the cursor is followed by
\* another Decision-classified step, the second step is consumed as the
\* YES-branch target of the first: its only node is the head of the first
\* decision's YES edge, it is never processed at the cursor, and it gets no
\* YES or NO edge of its own.
C17_SecondIsYesTarget ==
    \A d \in CursorDecisions :
        LET k == origin[d].pos + 1
        IN  k \in AdjacentDecisions =>
              /\ d < Len(nodes)
              /\ origin[d + 1] = [pos |-> k, role |-> "yes"]
              /\ nodes[d + 1].label = steps[k + 1]
              /\ DecisionNodesAt(k + 1) = {}
              /\ \A g \in 1..Len(nodes) :
                    (origin[g].pos = k /\ origin[g].role # "no") => g = d + 1
              /\ \A e \in OutEdges(nodes[d + 1].name) :
                    edges[e].label = "None"
              /\ \A e \in InEdges(nodes[d + 1].name) :
                    edges[e].label = "YES" /\ edges[e].tail = nodes[d].name

C17_Witness ==
    /\ Compiled
    /\ \E d \in CursorDecisions :
          /\ origin[d].pos + 1 \in AdjacentDecisions
          /\ origin[d].pos + 2 < Len(steps)
          /\ OutEdges(nodes[d + 1].name) # {}

\* a step that contains "else" and no StartEnd keyword
IsMarkerStep(s) == HasElse(s) /\ ~IsStart(s) /\ ~IsEnd(s)

\* C18: in a compiled graph no node is labelled with a step that contains
\* "else" and no StartEnd keyword.
C18_ElseNeverNode ==
    Compiled => \A n \in 1..Len(nodes) : ~IsMarkerStep(nodes[n].label)

\* shape and fill colour of the kind a label classifies to
ShapeByKind(label) ==
    CASE Classify(label) \in {"start", "end"} -> <<"ellipse", Colors.start_end>>
      [] Classify(label) = "decision" -> <<"diamond", Colors.decision>>
      [] OTHER -> <<"box", Colors.process>>

\* C19: every node of a compiled graph, YES-branch and NO-branch targets
\* included, has the shape and the fill colour of the kind its label
\* classifies to.
C19_ShapeByKind ==
    Compiled =>
        \A n \in 1..Len(nodes) :
            <<nodes[n].shape, nodes[n].fillcolor>> = ShapeByKind(nodes[n].label)

\* the blocks of the fallback markup that was displayed
Blocks == display.html[1]

\* the blocks followed by a directional marker
Markers == {k \in 1..Len(Blocks) : Blocks[k].arrow}

\* C20: the fallback markup has exactly one block per step, in step order,
\* "else" steps and steps after a decision included, with a directional
\* marker after every block except the last (n blocks and n - 1 markers for
\* n steps); each block is determined by its step and the colour scheme.
C20_HtmlLinear ==
    display.renderer = "html" =>
        /\ ListsSegments([k \in 1..Len(Blocks) |-> Blocks[k].text],
                         instruction_text)
        /\ Tokenized => /\ Len(Blocks) = Len(steps)
                        /\ \A k \in 1..Len(steps) : Blocks[k].text = steps[k]
        /\ Markers = 1..(Len(Blocks) - 1)
        /\ Len(Blocks) > 0 => Cardinality(Markers) = Len(Blocks) - 1
        /\ \A k \in 1..Len(Blocks) :
              Blocks[k].style =
                  ShapeStyle(Blocks[k].text,
                             SchemeGet(HtmlSchemes, color_scheme))

C20_Witness ==
    /\ display.renderer = "html"
    /\ Compiled
    /\ Len(Blocks) >= 4
    /\ Len(nodes) < Len(Blocks)
    /\ \E k \in 2..Len(Blocks) :
          /\ HasElse(Blocks[k].text)
          /\ Classify(Blocks[k - 1].text) = "decision"
    /\ Cardinality(Markers) = Len(Blocks) - 1

\* the cursor stays within the steps while the loop runs, and is at the end
\* of the steps once the loop has ended
CursorInRange ==
    /\ pc = "loop" => (0 <= i /\ i <= Len(steps))
    /\ (pc \in {"display", "fallback", "done"} /\ Compiled) => i = Len(steps)

\* the loop is entered with the cursor at 0, every iteration moves the
\* cursor forward by at least one step and not past the end, and the loop is
\* left only with the cursor at the end
CursorStep ==
    /\ (pc = "import" /\ pc' = "loop") => i' = 0
    /\ InLoop => /\ pc' = "loop"
                 /\ i' > i
                 /\ i' <= Len(steps)
                 /\ steps' = steps
    /\ (pc = "loop" /\ pc' # "loop") => /\ i = Len(steps)
                                        /\ i' = i
                                        /\ result'.dot

\* C21: the graph builder terminates on every step sequence: the cursor
\* starts at 0, strictly increases in every loop iteration, never exceeds
\* len(steps), and the loop ends with the cursor equal to len(steps).
C21_CursorTerminates == [](CursorInRange) /\ [][CursorStep]_vars

C21_Witness ==
    /\ Compiled
    /\ i = Len(steps)
    /\ Len(steps) >= 4
    /\ \E n \in 1..Len(origin) : origin[n].role = "no"
    /\ \E n \in 1..Len(origin) :
          origin[n].role = "cursor" /\ nodes[n].shape # "diamond"

\* C22: in a compiled graph every step position is the label source of at
\* most one node; a step used as a NO-branch target is not emitted again
\* when the cursor reaches it.
C22_PositionOnce ==
    Compiled =>
        \A n, m \in 1..Len(nodes) :
            origin[n].pos = origin[m].pos => n = m

\* C23: in a compiled graph every step that does not contain "else" is the
\* label of at least one node, steps between a Decision's YES step and the
\* "else" step of its lookahead included.
C23_NoStepLost ==
    Compiled =>
        \A k \in 1..Len(steps) :
            ~HasElse(steps[k]) =>
                \E n \in 1..Len(nodes) : nodes[n].label = steps[k]

\* the kind the graph-mode classifier gives a step processed at the cursor
GraphKind(s) ==
    CASE Classify(s) \in {"start", "end"} -> "start_end"
      [] Classify(s) = "decision" -> "decision"
      [] OTHER -> "process"

\* the kind a block of the fallback markup was styled with
BlockKind(b) ==
    CASE b.style.shape = "border-radius: 25px" -> "start_end"
      [] b.style.shape = "transform: rotate(45deg)" -> "decision"
      [] OTHER -> "process"

\* C24: every step that does not contain "else" is styled by the fallback
\* renderer with the kind the graph-mode classifier gives it.
C24_RenderersAgree ==
    display.renderer = "html" =>
        \A k \in 1..Len(Blocks) :
            ~HasElse(Blocks[k].text) =>
                BlockKind(Blocks[k]) = GraphKind(Blocks[k].text)
====
